---------------------------- MODULE Spec2Model ----------------------------
(***************************************************************************)
(* YaYa Wallet webhook receiver: the verifier (webhookVerification.ts),    *)
(* the request handler with its deferred processing (webhookController.ts, *)
(* webhookProcessor.ts) and the process lifecycle (index.ts).              *)
(*                                                                         *)
(* Strings that take part in the canonical payload are sequences of        *)
(* one-character strings, so that concatenation is \o.  HMAC-SHA256 is an  *)
(* ideal keyed hash: its digest is determined by, and determines, the key  *)
(* and the message (no collisions).  A formatted message is its template   *)
(* text together with the interpolated values.                             *)
(***************************************************************************)
EXTENDS Integers, Sequences, FiniteSets, TLC

VARIABLES
    config,     \* config.webhook: [secret, timestampTolerance, trustedIps]
    nodeEnv,    \* process.env.NODE_ENV
    nowMs,      \* Date.now()
    alive,      \* the process has not exited
    reqs,       \* the requests handled so far, in arrival order
    call        \* one direct call of verifyWebhook: its arguments and result

vars == <<config, nodeEnv, nowMs, alive, reqs, call>>

-----------------------------------------------------------------------------
(* Bounds *)

MaxReq == 2          \* requests handled in one run of the server
MaxNowSec == 3       \* last clock second of a server run
MaxCallSec == 4      \* last clock second / payload timestamp of a direct call

-----------------------------------------------------------------------------
(* Values *)

Digits == <<"0", "1", "2", "3", "4", "5", "6", "7", "8", "9">>

\* Number.prototype.toString() of a non-negative integer: decimal digits,
\* no leading zeros, no decimal point.
RECURSIVE NumToString(_)
NumToString(n) ==
    IF n < 10 THEN <<Digits[n + 1]>>
    ELSE NumToString(n \div 10) \o <<Digits[(n % 10) + 1]>>

Abs(x) == IF x < 0 THEN -x ELSE x

\* A message built by a template literal: the fixed text and the values
\* interpolated into it, in order.
Msg(text, args) == [text |-> text, args |-> args]

Fields ==
    {"id", "amount", "currency", "created_at_time", "timestamp", "cause",
     "full_name", "account_name", "invoice_url"}

-----------------------------------------------------------------------------
(* webhookVerification.ts *)

\* Mutant: the cause field is left out of the canonical string.
createSignedPayload_OmitsCause(payload) ==
    payload.id
        \o NumToString(payload.amount)
        \o payload.currency
        \o NumToString(payload.created_at_time)
        \o NumToString(payload.timestamp)
        \o payload.full_name
        \o payload.account_name
        \o payload.invoice_url

\* Mutant: the parts are joined with a separator.
createSignedPayload_Separated(payload) ==
    payload.id
        \o <<"|">> \o NumToString(payload.amount)
        \o <<"|">> \o payload.currency
        \o <<"|">> \o NumToString(payload.created_at_time)
        \o <<"|">> \o NumToString(payload.timestamp)
        \o <<"|">> \o payload.cause
        \o <<"|">> \o payload.full_name
        \o <<"|">> \o payload.account_name
        \o <<"|">> \o payload.invoice_url

createSignedPayload(payload) ==
    payload.id
        \o NumToString(payload.amount)
        \o payload.currency
        \o NumToString(payload.created_at_time)
        \o NumToString(payload.timestamp)
        \o payload.cause
        \o payload.full_name
        \o payload.account_name
        \o payload.invoice_url

\* crypto.createHmac('sha256', secret).update(m, 'utf8').digest('hex')
HmacSha256Hex(secret, m) == [key |-> secret, msg |-> m]

generateSignature(payload, secret) ==
    HmacSha256Hex(secret, createSignedPayload(payload))

\* Mutant: the difference is taken without Math.abs.
verifyTimestamp_NoAbs(receivedTimestamp, tolerance, now) ==
    LET currentTime == now \div 1000
        timeDifference == currentTime - receivedTimestamp
    IN  IF timeDifference * 1000 > tolerance
        THEN [isValid |-> FALSE,
              error |-> Msg("Timestamp too old. Difference: ${}s, Tolerance: ${}s",
                            <<timeDifference, tolerance \div 1000, tolerance % 1000>>)]
        ELSE [isValid |-> TRUE]

\* Mutant: the tolerance in milliseconds is compared with seconds.
verifyTimestamp_NoUnitConversion(receivedTimestamp, tolerance, now) ==
    LET currentTime == now \div 1000
        timeDifference == Abs(currentTime - receivedTimestamp)
    IN  IF timeDifference > tolerance
        THEN [isValid |-> FALSE,
              error |-> Msg("Timestamp too old. Difference: ${}s, Tolerance: ${}s",
                            <<timeDifference, tolerance \div 1000, tolerance % 1000>>)]
        ELSE [isValid |-> TRUE]

verifyTimestamp(receivedTimestamp, tolerance, now) ==
    LET currentTime == now \div 1000
        timeDifference == Abs(currentTime - receivedTimestamp)
    IN  IF timeDifference * 1000 > tolerance     \* timeDifference > tolerance / 1000
        THEN [isValid |-> FALSE,
              error |-> Msg("Timestamp too old. Difference: ${}s, Tolerance: ${}s",
                            <<timeDifference, tolerance \div 1000, tolerance % 1000>>)]
        ELSE [isValid |-> TRUE]

\* Mutant: an empty trusted list allows every address.
isTrustedIp_EmptyAllowsAll(clientIp, cfg, env) ==
    IF env = "development" /\ clientIp = "::1"
    THEN TRUE
    ELSE cfg.trustedIps = {} \/ clientIp \in cfg.trustedIps

isTrustedIp(clientIp, cfg, env) ==
    IF env = "development" /\ clientIp = "::1"
    THEN TRUE
    ELSE clientIp \in cfg.trustedIps

\* Mutant: the timestamp is checked before the signature.
verifyWebhook_TimestampFirst(payload, signature, clientIp, cfg, env, now, cryptoThrows) ==
    IF ~isTrustedIp(clientIp, cfg, env)
    THEN [isValid |-> FALSE, error |-> Msg("Untrusted IP address", <<>>)]
    ELSE IF ~verifyTimestamp(payload.timestamp, cfg.timestampTolerance, now).isValid
    THEN [isValid |-> FALSE,
          error |-> verifyTimestamp(payload.timestamp, cfg.timestampTolerance, now).error]
    ELSE IF cryptoThrows
    THEN [isValid |-> FALSE, error |-> Msg("Verification failed", <<>>)]
    ELSE IF signature # generateSignature(payload, cfg.secret)
    THEN [isValid |-> FALSE, error |-> Msg("Invalid signature", <<>>)]
    ELSE [isValid |-> TRUE, timestamp |-> payload.timestamp]

\* Mutant: the timestamp check is left out.
verifyWebhook_NoTimestampCheck(payload, signature, clientIp, cfg, env, now, cryptoThrows) ==
    IF ~isTrustedIp(clientIp, cfg, env)
    THEN [isValid |-> FALSE, error |-> Msg("Untrusted IP address", <<>>)]
    ELSE IF cryptoThrows
    THEN [isValid |-> FALSE, error |-> Msg("Verification failed", <<>>)]
    ELSE IF signature # generateSignature(payload, cfg.secret)
    THEN [isValid |-> FALSE, error |-> Msg("Invalid signature", <<>>)]
    ELSE [isValid |-> TRUE, timestamp |-> payload.timestamp]

\* cryptoThrows: the HMAC primitive throws in this call (an unexpected fault).
verifyWebhook(payload, signature, clientIp, cfg, env, now, cryptoThrows) ==
    IF ~isTrustedIp(clientIp, cfg, env)
    THEN [isValid |-> FALSE, error |-> Msg("Untrusted IP address", <<>>)]
    ELSE IF cryptoThrows
    THEN [isValid |-> FALSE, error |-> Msg("Verification failed", <<>>)]
    ELSE IF signature # generateSignature(payload, cfg.secret)
    THEN [isValid |-> FALSE, error |-> Msg("Invalid signature", <<>>)]
    ELSE LET timestampVerification ==
                 verifyTimestamp(payload.timestamp, cfg.timestampTolerance, now)
         IN  IF ~timestampVerification.isValid
             THEN [isValid |-> FALSE, error |-> timestampVerification.error]
             ELSE [isValid |-> TRUE, timestamp |-> payload.timestamp]


-----------------------------------------------------------------------------
(* webhookController.ts, webhookProcessor.ts *)

\* validationRules, as far as they look at the shape modelled here: the
\* messages of the failing rules (errors.array()).
validationErrors(payload) ==
    (IF Len(payload.currency) # 3 THEN <<"Currency must be 3 characters">> ELSE <<>>)
        \o (IF payload.cause = <<>> THEN <<"Cause is required">> ELSE <<>>)
        \o (IF payload.full_name = <<>> THEN <<"Full name is required">> ELSE <<>>)
        \o (IF payload.account_name = <<>> THEN <<"Account name is required">> ELSE <<>>)

\* Mutant: processing runs inline, before the response.
handleWebhook_ProcessesInline(payload, signature, clientIp, cfg, env, now, handlerThrows, cryptoThrows) ==
    LET request == [payload |-> payload, signature |-> signature, clientIp |-> clientIp,
                    verdict |-> <<>>, status |-> 0, body |-> <<>>,
                    task |-> "none", calls |-> 0, result |-> "none"]
        errors == validationErrors(payload)
        verificationResult ==
            verifyWebhook(payload, signature, clientIp, cfg, env, now, cryptoThrows)
    IN  IF errors # <<>>
        THEN [request EXCEPT
                !.status = 400,
                !.body = [error |-> "Invalid request body", details |-> errors]]
        ELSE IF handlerThrows
        THEN [request EXCEPT
                !.status = 500,
                !.body = [error |-> "Internal server error",
                          message |-> Msg("Failed to process webhook", <<>>)]]
        ELSE IF ~verificationResult.isValid
        THEN [request EXCEPT
                !.verdict = <<verificationResult>>,
                !.status = 401,
                !.body = [error |-> "Webhook verification failed",
                          message |-> verificationResult.error]]
        ELSE [request EXCEPT
                !.verdict = <<verificationResult>>,
                !.status = 200,
                !.body = [success |-> TRUE,
                          message |-> Msg("Webhook received successfully", <<>>),
                          transactionId |-> payload.id],
                !.task = "running",
                !.calls = 1]

\* What one run of handleWebhook leaves behind for a request: the verdict it
\* obtained (if it got that far), the response it wrote, and whether it
\* scheduled the setImmediate callback.  The handler has no await, so it runs
\* to its response in one step.
\* handlerThrows: an exception is raised in the handler body itself, after
\* validation and outside verifyWebhook (caught by the outer catch).
handleWebhook(payload, signature, clientIp, cfg, env, now, handlerThrows, cryptoThrows) ==
    LET request == [payload |-> payload, signature |-> signature, clientIp |-> clientIp,
                    verdict |-> <<>>, status |-> 0, body |-> <<>>,
                    task |-> "none", calls |-> 0, result |-> "none"]
        errors == validationErrors(payload)
        verificationResult ==
            verifyWebhook(payload, signature, clientIp, cfg, env, now, cryptoThrows)
    IN  IF errors # <<>>
        THEN [request EXCEPT
                !.status = 400,
                !.body = [error |-> "Invalid request body", details |-> errors]]
        ELSE IF handlerThrows
        THEN [request EXCEPT
                !.status = 500,
                !.body = [error |-> "Internal server error",
                          message |-> Msg("Failed to process webhook", <<>>)]]
        ELSE IF ~verificationResult.isValid
        THEN [request EXCEPT
                !.verdict = <<verificationResult>>,
                !.status = 401,
                !.body = [error |-> "Webhook verification failed",
                          message |-> verificationResult.error]]
        ELSE [request EXCEPT
                !.verdict = <<verificationResult>>,
                !.status = 200,
                !.body = [success |-> TRUE,
                          message |-> Msg("Webhook received successfully", <<>>),
                          transactionId |-> payload.id],
                !.task = "scheduled"]

\* The setImmediate callback starts: it calls processWebhook, which logs and
\* suspends at `await simulateProcessing()`.
startProcessing(request) ==
    [request EXCEPT !.task = "running", !.calls = @ + 1]

\* Mutant: a failed run is scheduled again.
finishProcessing_RetriesFailure(request, outcome) ==
    IF outcome = "success"
    THEN [request EXCEPT !.task = "done", !.result = outcome]
    ELSE [request EXCEPT !.task = "scheduled"]

\* Mutant: the awaited processing never settles.
finishProcessing_NeverSettles(request, outcome) == request

\* processWebhook settles and the callback ends.  outcome is "success" (the
\* steps ran), "failed" (a step threw, processWebhook caught it and returned
\* success: false, the callback logged it) or "threw" (processWebhook itself
\* rejected, the callback's catch logged it).
finishProcessing(request, outcome) ==
    [request EXCEPT !.task = "done", !.result = outcome]

ProcessingOutcomes == {"success", "failed", "threw"}

-----------------------------------------------------------------------------
(* Inputs *)

Secrets == {"s3cr3t", "default_secret_change_in_production"}

TrustedIp == "196.189.44.60"
OtherIp == "203.0.113.9"
Loopback == "::1"
ClientIps == {TrustedIp, OtherIp, Loopback}

NodeEnvs == {"development", "production", "unset"}

\* A signature header that is the digest of nothing under any key.
ForgedSignature == [key |-> "", msg |-> <<>>]

BasePayload ==
    [id |-> <<"i", "d">>, amount |-> 100, currency |-> <<"E", "T", "B">>,
     created_at_time |-> 1, timestamp |-> 0, cause |-> <<"T">>,
     full_name |-> <<"A", "K">>, account_name |-> <<"a", "k">>,
     invoice_url |-> <<"u">>]

\* The other value each field takes, chosen so that adjacent fields can trade
\* characters or digits across their boundary.
AltPayload ==
    [id |-> <<"i">>, amount |-> 0, currency |-> <<"U", "S", "D">>,
     created_at_time |-> 12, timestamp |-> 2, cause |-> <<"T", "A">>,
     full_name |-> <<"K">>, account_name |-> <<"a">>,
     invoice_url |-> <<"k", "u">>]

\* Every payload that takes each field from BasePayload or AltPayload.
PayloadSpace ==
    {[f \in Fields |-> IF f \in alt THEN AltPayload[f] ELSE BasePayload[f]] :
        alt \in SUBSET Fields}

\* payload with one field replaced by its other value
Tampered(payload, f) ==
    [payload EXCEPT ![f] = IF @ = BasePayload[f] THEN AltPayload[f] ELSE BasePayload[f]]


\* config.webhook as loaded from the environment at startup.
Configs ==
    [secret : Secrets,
     timestampTolerance : {0, 1000, 1500, 2000},
     trustedIps : {{}, {TrustedIp}, {TrustedIp, Loopback}}]

ServerConfigs ==
    {[secret |-> "s3cr3t", timestampTolerance |-> 1000, trustedIps |-> {TrustedIp}]}

\* A body that fails field validation (currency of two characters).
MalformedPayload == [BasePayload EXCEPT !.currency = <<"E", "T">>]

ServerPayloads == {BasePayload, MalformedPayload}

-----------------------------------------------------------------------------
(* The server: requests arrive, are answered, and their processing runs     *)
(* later; the clock advances; a signal ends the process.                    *)

NoCall == <<>>

Init ==
    /\ config \in ServerConfigs
    /\ nodeEnv \in {"production", "development"}
    /\ nowMs = 0
    /\ alive = TRUE
    /\ reqs = <<>>
    /\ call = NoCall

\* router.post('/webhook', validationRules, handleWebhook) run for one request.
Handle(payload, signature, clientIp, handlerThrows, cryptoThrows) ==
    /\ alive
    /\ Len(reqs) < MaxReq
    /\ reqs' = Append(reqs, handleWebhook(payload, signature, clientIp, config, nodeEnv,
                                          nowMs, handlerThrows, cryptoThrows))
    /\ UNCHANGED <<config, nodeEnv, nowMs, alive, call>>

\* A request arrives from the network.
Receive ==
    \E payload \in ServerPayloads, clientIp \in {TrustedIp, OtherIp, Loopback},
       handlerThrows \in BOOLEAN, cryptoThrows \in BOOLEAN :
        \E signature \in {generateSignature(payload, config.secret), ForgedSignature} :
            Handle(payload, signature, clientIp, handlerThrows, cryptoThrows)

\* Someone who captured an earlier request sends it again, unchanged.
Replay ==
    \E i \in 1..Len(reqs) :
        Handle(reqs[i].payload, reqs[i].signature, reqs[i].clientIp, FALSE, FALSE)

\* The event loop runs the setImmediate callback scheduled for request i.
RunDeferredOf(i) ==
    /\ alive
    /\ i \in 1..Len(reqs)
    /\ reqs[i].task = "scheduled"
    /\ reqs' = [reqs EXCEPT ![i] = startProcessing(@)]
    /\ UNCHANGED <<config, nodeEnv, nowMs, alive, call>>

\* The event loop runs a scheduled setImmediate callback.
RunDeferred == \E i \in 1..Len(reqs) : RunDeferredOf(i)

\* processWebhook settles for request i and its callback ends.
FinishProcessingOf(i) ==
    \E outcome \in ProcessingOutcomes :
        /\ alive
        /\ i \in 1..Len(reqs)
        /\ reqs[i].task = "running"
        /\ reqs' = [reqs EXCEPT ![i] = finishProcessing(@, outcome)]
        /\ UNCHANGED <<config, nodeEnv, nowMs, alive, call>>

\* processWebhook settles for a request and its callback ends.
FinishProcessing == \E i \in 1..Len(reqs) : FinishProcessingOf(i)

\* A second passes.
Tick ==
    /\ alive
    /\ nowMs + 1000 <= MaxNowSec * 1000
    /\ nowMs' = nowMs + 1000
    /\ UNCHANGED <<config, nodeEnv, alive, reqs, call>>

\* index.ts: SIGTERM or SIGINT calls process.exit(0) at once.
Shutdown ==
    /\ alive
    /\ alive' = FALSE
    /\ UNCHANGED <<config, nodeEnv, nowMs, reqs, call>>

Next == Receive \/ Replay \/ RunDeferred \/ FinishProcessing \/ Tick \/ Shutdown

Spec == Init /\ [][Next]_vars

\* While the process runs, the event loop runs every queued setImmediate
\* callback, and the 100 ms timer that processWebhook awaits fires.
Fairness ==
    \A i \in 1..MaxReq : WF_vars(RunDeferredOf(i)) /\ WF_vars(FinishProcessingOf(i))

SpecLive == Init /\ [][Next]_vars /\ Fairness


-----------------------------------------------------------------------------
(* verifyWebhook called directly.  A sender signs `original` with the key   *)
(* `signer` ("" stands for a forged header); `payload` is what arrives:     *)
(* `original` itself, or `original` with one field changed on the way.      *)

HalfSeconds == {500 * k : k \in 0..(2 * MaxCallSec)}

SignatureOf(original, signer) ==
    IF signer = "" THEN ForgedSignature ELSE generateSignature(original, signer)

\* Calls that vary the time, the address and the signature of one payload.
TimedCalls ==
    {[original |-> [BasePayload EXCEPT !.timestamp = t],
      payload |-> [BasePayload EXCEPT !.timestamp = t],
      signer |-> signer,
      signature |-> SignatureOf([BasePayload EXCEPT !.timestamp = t], signer),
      clientIp |-> clientIp,
      cryptoThrows |-> cryptoThrows,
      result |-> <<>>] :
        t \in 0..MaxCallSec, signer \in Secrets \cup {""},
        clientIp \in ClientIps, cryptoThrows \in BOOLEAN}

\* Calls that carry the sender's signature of `original` with a payload that
\* has one field changed.
TamperedCalls(secret) ==
    {[original |-> original,
      payload |-> Tampered(original, f),
      signer |-> secret,
      signature |-> SignatureOf(original, secret),
      clientIp |-> clientIp,
      cryptoThrows |-> FALSE,
      result |-> <<>>] :
        original \in PayloadSpace, f \in Fields, clientIp \in {TrustedIp, OtherIp}}

\* Calls that carry the sender's signature of `original` with any payload
\* of the space.
PairedCalls(secret) ==
    {[original |-> original,
      payload |-> payload,
      signer |-> secret,
      signature |-> SignatureOf(original, secret),
      clientIp |-> TrustedIp,
      cryptoThrows |-> FALSE,
      result |-> <<>>] :
        original \in PayloadSpace, payload \in PayloadSpace}

InitVerify ==
    /\ alive = TRUE
    /\ reqs = <<>>
    /\ \/ /\ config \in Configs
          /\ nodeEnv \in NodeEnvs
          /\ nowMs \in HalfSeconds
          /\ call \in TimedCalls
       \/ /\ config \in ServerConfigs
          /\ nodeEnv = "production"
          /\ nowMs \in {0, 2000}
          /\ call \in TamperedCalls(config.secret)
       \/ /\ config \in ServerConfigs
          /\ nodeEnv = "production"
          /\ nowMs = 1000
          /\ call \in PairedCalls(config.secret)

VerifyCall ==
    /\ call # NoCall
    /\ call.result = <<>>
    /\ call' = [call EXCEPT !.result =
                    <<verifyWebhook(call.payload, call.signature, call.clientIp,
                                    config, nodeEnv, nowMs, call.cryptoThrows)>>]
    /\ UNCHANGED <<config, nodeEnv, nowMs, alive, reqs>>

NextVerify == VerifyCall

SpecVerify == InitVerify /\ [][NextVerify]_vars


-----------------------------------------------------------------------------
(* Properties of verifyWebhook, checked under SpecVerify *)

Called == call # NoCall /\ call.result # <<>>
Verdict == call.result[1]

UntrustedIpError == Msg("Untrusted IP address", <<>>)
InvalidSignatureError == Msg("Invalid signature", <<>>)
VerificationFailedError == Msg("Verification failed", <<>>)
TimestampErrorText == "Timestamp too old. Difference: ${}s, Tolerance: ${}s"

Rejected(verdict) == ~verdict.isValid /\ "error" \in DOMAIN verdict
RejectedWith(verdict, error) == Rejected(verdict) /\ verdict.error = error
RejectedForTimestamp(verdict) ==
    Rejected(verdict) /\ verdict.error.text = TimestampErrorText

\* The three checks, stated on the arguments of the call.
InTrustedSet == call.clientIp \in config.trustedIps
DevLoopback == nodeEnv = "development" /\ call.clientIp = "::1"
IpPasses == InTrustedSet \/ DevLoopback
SignatureMatches ==
    call.signature = HmacSha256Hex(config.secret, createSignedPayload(call.payload))
Delta == Abs((nowMs \div 1000) - call.payload.timestamp)
InWindow == Delta * 1000 <= config.timestampTolerance

C2_ValidIffAllPass ==
    Called =>
        /\ Verdict.isValid <=>
              (IpPasses /\ ~call.cryptoThrows /\ SignatureMatches /\ InWindow)
        /\ Verdict.isValid =>
              /\ DOMAIN Verdict = {"isValid", "timestamp"}
              /\ Verdict.timestamp = call.payload.timestamp
        /\ ~Verdict.isValid => DOMAIN Verdict = {"isValid", "error"}

\* A valid verdict for a payload with a non-zero timestamp.
C2_Witness ==
    /\ Called
    /\ Verdict.isValid
    /\ call.payload.timestamp > 0
    /\ Verdict.timestamp = call.payload.timestamp

C5_ToleranceBoundary ==
    (Called /\ IpPasses /\ ~call.cryptoThrows /\ SignatureMatches) =>
        /\ Delta * 1000 <= config.timestampTolerance => Verdict.isValid
        /\ Delta * 1000 > config.timestampTolerance =>
              /\ RejectedForTimestamp(Verdict)
              /\ Verdict.error.args[1] = Delta
        /\ (Delta - 1) * 1000 = config.timestampTolerance => ~Verdict.isValid

\* A timestamp in the future, exactly the tolerance away, read off a clock
\* that is not on a whole second, is accepted.
C5_Witness ==
    /\ Called
    /\ IpPasses /\ ~call.cryptoThrows /\ SignatureMatches
    /\ call.payload.timestamp > nowMs \div 1000
    /\ nowMs % 1000 # 0
    /\ config.timestampTolerance > 0
    /\ Delta * 1000 = config.timestampTolerance
    /\ Verdict.isValid

ChangedFields(p, q) == {f \in Fields : p[f] # q[f]}

\* C10: when the arriving payload differs from the signed one in exactly one
\* field, the two canonical strings differ, and the signature of the signed
\* payload under the configured secret fails the signature check.
C10_SingleFieldChange ==
    (/\ call # NoCall
     /\ Cardinality(ChangedFields(call.payload, call.original)) = 1
     /\ call.signature = generateSignature(call.original, config.secret)) =>
        /\ createSignedPayload(call.payload) # createSignedPayload(call.original)
        /\ (Called /\ IpPasses /\ ~call.cryptoThrows)
              => RejectedWith(Verdict, InvalidSignatureError)

\* The timestamp of a signed payload was changed and the call was rejected
\* for its signature.
C10_Witness ==
    /\ Called
    /\ ChangedFields(call.payload, call.original) = {"timestamp"}
    /\ call.signature = generateSignature(call.original, config.secret)
    /\ IpPasses
    /\ RejectedWith(Verdict, InvalidSignatureError)


-----------------------------------------------------------------------------
(* Properties of the server, checked under Spec *)

Handled == 1..Len(reqs)

\* The request that a step has just answered, if it answered one.
Arrived == Len(reqs') = Len(reqs) + 1
Newest == reqs'[Len(reqs')]

SameRequest(r, q) ==
    /\ r.payload = q.payload
    /\ r.signature = q.signature
    /\ r.clientIp = q.clientIp

WithinTolerance(payload) ==
    Abs((nowMs \div 1000) - payload.timestamp) * 1000 <= config.timestampTolerance

C3_Handoff ==
    \A i \in Handled :
        LET r == reqs[i]
        IN  /\ (r.task # "none" \/ r.calls > 0) =>
                  /\ r.status = 200
                  /\ validationErrors(r.payload) = <<>>
                  /\ r.verdict # <<>>
                  /\ r.verdict[1].isValid
            /\ r.status \in {400, 401, 500} => (r.task = "none" /\ r.calls = 0)
            /\ r.verdict # <<>> =>
                  r.status = (IF r.verdict[1].isValid THEN 200 ELSE 401)

C3_Step ==
    /\ \A i \in Handled : reqs'[i].calls > reqs[i].calls => reqs[i].status = 200
    /\ Arrived => (Newest.calls = 0 /\ Newest.status \in {200, 400, 401, 500})

\* C3: processWebhook is started only for a request that passed validation
\* and got a valid verdict, in a step later than the one that emitted its 200
\* response; a request answered 400, 401 or 500 never has it started; and a
\* request is never left with a verdict and no response (the verdict and the
\* response belong to one step).
C3_ProcessingOnlyAfter200 == []C3_Handoff /\ [][C3_Step]_vars

\* A request was acknowledged and its processing has started, beside one that
\* was rejected and has none.
C3_Witness ==
    \E i, j \in Handled :
        /\ reqs[i].status = 200 /\ reqs[i].calls = 1
        /\ reqs[j].status = 401 /\ reqs[j].calls = 0

\* C6 as stated: a re-submission of an accepted request is rejected and
\* triggers no second handoff.
C6_ReplayRejected ==
    \A i, j \in Handled :
        (i < j /\ reqs[i].status = 200 /\ SameRequest(reqs[i], reqs[j])) =>
            (reqs[j].status # 200 /\ reqs[j].task = "none")

C6_Step ==
    (Arrived /\ \E i \in Handled : reqs[i].status = 200 /\ SameRequest(reqs[i], Newest)) =>
        IF WithinTolerance(Newest.payload)
        THEN \/ Newest.status = 200 /\ Newest.task = "scheduled"
             \/ Newest.status = 500
             \/ Newest.status = 401 /\ Newest.verdict[1].error = VerificationFailedError
        ELSE /\ Newest.status \in {401, 500}
             /\ Newest.task = "none"
             /\ Newest.status = 401 =>
                    \/ RejectedForTimestamp(Newest.verdict[1])
                    \/ Newest.verdict[1].error = VerificationFailedError

\* C6 amended: a re-submission of an accepted request is rejected (with the
\* timestamp error, and without a handoff) only when it arrives more than the
\* tolerance away from payload.timestamp; one that arrives inside the
\* tolerance window is accepted again and handed to processing a second time,
\* unless an internal fault ends the handler first.
C6_ReplayRejectedOnlyOutsideWindow == [][C6_Step]_vars

\* An accepted request was sent again after the window and rejected for its
\* timestamp.
C6_Witness ==
    \E i, j \in Handled :
        /\ i < j
        /\ reqs[i].status = 200
        /\ SameRequest(reqs[i], reqs[j])
        /\ reqs[j].status = 401
        /\ RejectedForTimestamp(reqs[j].verdict[1])

C7_Acknowledged ==
    \A i \in Handled :
        LET r == reqs[i]
        IN  r.status = 200 =>
                /\ r.calls <= 1
                /\ r.task = "scheduled" => r.calls = 0
                /\ r.task \in {"running", "done"} => r.calls = 1
                /\ r.task = "done" <=> r.result \in ProcessingOutcomes

C7_Step ==
    \A i \in Handled :
        /\ reqs'[i].status = reqs[i].status
        /\ reqs'[i].body = reqs[i].body
        /\ reqs'[i].calls >= reqs[i].calls
        /\ reqs[i].task = "done" => reqs'[i] = reqs[i]
        /\ ~alive => reqs'[i] = reqs[i]

\* C7 as stated, for its count: by the time the process has exited,
\* processWebhook has been invoked exactly once for every request that was
\* answered 200.
C7_ExactlyOnce ==
    ~alive => \A i \in Handled : reqs[i].status = 200 => reqs[i].calls = 1

\* C7 amended: a response, once written, is never written again, whatever
\* processWebhook does (success, success: false, or a throw); processWebhook
\* is invoked at most once for an acknowledged request: exactly once when its
\* deferred callback has run, never again after the callback has finished,
\* and not at all if the process exits before the callback runs.
C7_NoSurfaceNoRetry == []C7_Acknowledged /\ [][C7_Step]_vars

\* Processing of an acknowledged request failed; the response is still 200.
C7_Witness ==
    \E i \in Handled :
        /\ reqs[i].status = 200
        /\ reqs[i].task = "done"
        /\ reqs[i].result \in {"failed", "threw"}
        /\ reqs[i].calls = 1
        /\ reqs[i].body.success

\* C8 as stated: a fault raised while verifying is answered 500, and 401 is
\* used only for the three expected rejections.
C8_FaultIs500 ==
    \A i \in Handled :
        LET r == reqs[i]
        IN  /\ (r.verdict # <<>> /\ r.verdict[1] =
                    [isValid |-> FALSE, error |-> VerificationFailedError])
                  => r.status = 500
            /\ r.status = 401 =>
                  \/ r.verdict[1].error \in {UntrustedIpError, InvalidSignatureError}
                  \/ RejectedForTimestamp(r.verdict[1])

\* C9 as stated: a 401 body carries no time difference or tolerance, and two
\* requests rejected by the same check receive the same body.
C9_NoDiagnosticsInBody ==
    \A i, j \in Handled :
        (/\ reqs[i].status = 401
         /\ reqs[j].status = 401
         /\ reqs[i].verdict[1].error.text = reqs[j].verdict[1].error.text) =>
            /\ reqs[i].body.message.args = <<>>
            /\ reqs[i].body = reqs[j].body


-----------------------------------------------------------------------------
(* Whole payloads under one signature, checked under SpecVerify *)

GenuineFor(original) == call.signature = generateSignature(original, config.secret)

\* The text that two adjacent free-text fields contribute together.
CauseAndName(payload) == payload.cause \o payload.full_name

\* C11 as stated: two distinct payloads never have the same canonical string,
\* and a signature accepted for one payload is never accepted for another.
C11_Injective ==
    (Called /\ call.payload # call.original /\ GenuineFor(call.original)) =>
        /\ createSignedPayload(call.payload) # createSignedPayload(call.original)
        /\ ~Verdict.isValid

\* C11 amended: the canonical serialization is not injective over whole
\* payloads.  Two payloads that differ in one field only never share a
\* canonical string; two that differ only in how cause and full_name split
\* the same text (cause "T" + full_name "AK", cause "TA" + full_name "K") do
\* share it; and the signature of one payload passes the signature check for
\* another payload exactly when their canonical strings are equal, so a
\* signature accepted for one payload is accepted for a different payload
\* with the same canonical string.
C11_InjectiveUpToConcatenation ==
    (call # NoCall /\ call.payload # call.original /\ GenuineFor(call.original)) =>
        LET same == createSignedPayload(call.payload) = createSignedPayload(call.original)
            changed == ChangedFields(call.payload, call.original)
        IN  /\ Cardinality(changed) = 1 => ~same
            /\ (changed = {"cause", "full_name"}
                   /\ CauseAndName(call.payload) = CauseAndName(call.original)) => same
            /\ (Called /\ IpPasses /\ ~call.cryptoThrows) =>
                  /\ ~same <=> RejectedWith(Verdict, InvalidSignatureError)
                  /\ (same /\ InWindow) => Verdict.isValid

\* A payload whose cause and full_name split their text differently from the
\* signed payload is accepted under the signed payload's signature.
C11_Witness ==
    /\ Called
    /\ GenuineFor(call.original)
    /\ ChangedFields(call.payload, call.original) = {"cause", "full_name"}
    /\ createSignedPayload(call.payload) = createSignedPayload(call.original)
    /\ Verdict.isValid


-----------------------------------------------------------------------------
(* Deferred processing and shutdown, checked under SpecLive *)

Acknowledged(i) == i \in Handled /\ reqs[i].status = 200
Settled(i) == i \in Handled /\ reqs[i].task = "done" /\ reqs[i].result \in ProcessingOutcomes

C12_Step == ~alive' => (reqs' = reqs)

\* C12: while the process runs, every request answered 200 eventually has its
\* deferred processing reach a terminal outcome (success, or a failure that
\* was caught and logged), unless the process exits first; the step in which
\* a SIGTERM or SIGINT ends the process, and every step after it, changes no
\* request, so a request acknowledged but not yet settled at exit never is.
C12_SettlesUnlessShutDown ==
    /\ \A i \in 1..MaxReq : Acknowledged(i) ~> (Settled(i) \/ ~alive)
    /\ [][C12_Step]_vars

\* The process has exited with one acknowledged request settled and another
\* one, whose processing had started, left unsettled.
C12_Witness ==
    /\ ~alive
    /\ \E i, j \in Handled :
          /\ Acknowledged(i) /\ Settled(i)
          /\ Acknowledged(j) /\ reqs[j].task = "running"

=============================================================================
